---- MODULE Spec2Model ----
(* The routing and session-actor subsystem of chatty: router() and          *)
(* messenger() of the chat server, with the HTTP handlers of main() as the   *)
(* callers and the genai chat session as an opaque backend.                  *)
EXTENDS Integers, Sequences, FiniteSets, TLC

(* ------------------------------------------------------------------ *)
(* Bounds of the model                                                  *)
(* ------------------------------------------------------------------ *)

\* Spec: two concurrent HTTP handlers, a few requests, short histories.
MaxMsgs == 3
MaxTurns == 2

\* LongSpec: one handler at a time, enough requests for a history to pass the limit.
LongMsgs == 13
LongTurns == 24

\* PairSpec: two handlers, and requests enough for a restart and what follows it.
PairMsgs == 14
PairTurns == 22

(* ------------------------------------------------------------------ *)
(* Program constants                                                    *)
(* ------------------------------------------------------------------ *)

\* if len(history) > 20
HistoryLimit == 20

\* history[10:]
KeepFrom == 10

\* The HTTP handlers that run at the same time.
Callers == {1, 2}

NoCaller == 0

\* The error of the routing step, and the opaque errors of the backend.
ErrNoKey == "no channel or node_id found"
ErrCreate == "create failed"
ErrSend == "send failed"
NoErr == ""

(* ------------------------------------------------------------------ *)
(* Requests                                                             *)
(* ------------------------------------------------------------------ *)

\* Metadata maps the handler can build: only non-empty query values are stored.
\* make(map[string]string): the empty map.
EmptyMap == [k \in {} |-> ""]

MetadataSet ==
    { EmptyMap,
      [channel |-> "DM"],
      [channel |-> "general"],
      [node_id |-> "abc"],
      [channel |-> "DM", node_id |-> "abc"],
      [channel |-> "general", node_id |-> "abc"] }

\* strings.ToUpper on the keys the handler puts in the metadata.
ToUpper(k) ==
    CASE k = "channel" -> "CHANNEL"
      [] k = "node_id" -> "NODE_ID"
      [] k = "short_name" -> "SHORT_NAME"
      [] k = "long_name" -> "LONG_NAME"
      [] k = "hops" -> "HOPS"
      [] k = "snr" -> "SNR"
      [] k = "rssi" -> "RSSI"
      [] k = "node_count" -> "NODE_COUNT"
      [] OTHER -> k

\* fmt.Sprintf("%s: %s\n", strings.ToUpper(k), v): a text is the sequence of the
\* strings it is made of.
MetaLine(k, v) == << ToUpper(k), ": ", v, "\n" >>

\* The orders in which "range msg.Metadata" can go through the keys.
Orders(keys) ==
    {o \in [1 .. Cardinality(keys) -> keys] :
        \A i, j \in 1 .. Cardinality(keys) : o[i] = o[j] => i = j}

\* meta += ... for every key, in the order of the iteration.
RECURSIVE MetaText(_, _)
MetaText(md, order) ==
    IF order = <<>> THEN <<>>
    ELSE MetaLine(Head(order), md[Head(order)]) \o MetaText(md, Tail(order))

\* The parts with the body in front of the metadata.
PartsBodyFirst(md, m, order) ==
    << [Text |-> << m >>] >>
        \o (IF Cardinality(DOMAIN md) > 0 THEN << [Text |-> MetaText(md, order)] >>
            ELSE <<>>)

\* The parts given to SendMessage: the metadata text when len(msg.Metadata) > 0,
\* then the Msg.
Parts(md, m, order) ==
    (IF Cardinality(DOMAIN md) > 0 THEN << [Text |-> MetaText(md, order)] >> ELSE <<>>)
        \o << [Text |-> << m >>] >>

\* msg.Metadata[k]: the zero value "" for a key that is absent.
MetaGet(md, k) == IF k \in DOMAIN md THEN md[k] ELSE ""

\* The key without the test for the sentinel "DM".
KeyOfNoSentinel(md) ==
    LET name == MetaGet(md, "channel")
    IN  IF name = "" THEN MetaGet(md, "node_id") ELSE name

\* The conversation key the dispatcher derives ("" when there is none).
KeyOf(md) ==
    LET name == MetaGet(md, "channel")
    IN  IF name = "DM" \/ name = "" THEN MetaGet(md, "node_id") ELSE name

\* response{Text: t} and response{Err: e}
TextResponse(t) == [Text |-> t, Err |-> NoErr]
ErrResponse(e) == [Text |-> "", Err |-> e]

(* ------------------------------------------------------------------ *)
(* The backend: sessions, histories, responses                          *)
(* ------------------------------------------------------------------ *)

\* The nil *genai.Chat.
NilChat == [id |-> 0, history |-> <<>>]

\* A turn of a session history is named by its number in the conversation.
LastTurn(h) == IF h = <<>> THEN 0 ELSE h[Len(h)]

\* What a successful send records: k new turns after those of h.
Recorded(h, k) == [i \in 1 .. k |-> LastTurn(h) + i]

\* The turns one send may record: none, the user turn, the user and the model turn.
AppendCounts == {0, 1, 2}

\* resp.Candidates[i].Content: nil, or its Parts (the text of each part).
NilContent == [isNil |-> TRUE, Parts |-> <<>>]
Content(parts) == [isNil |-> FALSE, Parts |-> parts]

\* The responses (as sequences of candidates) a successful send may return.
ResponseSet ==
    { <<>>,
      << NilContent >>,
      << Content(<<>>) >>,
      << Content(<< "", "" >>) >>,
      << Content(<< "", "yo", "hi" >>) >> }

\* The loop over the parts without its break: every part with text is written.
RECURSIVE FirstTextNoBreak(_)
FirstTextNoBreak(parts) ==
    IF parts = <<>> THEN <<>>
    ELSE (IF Head(parts) # "" THEN << TextResponse(Head(parts)) >> ELSE <<>>)
             \o FirstTextNoBreak(Tail(parts))

\* for _, part := range Parts { if part.Text != "" { RespChan <- ...; break } }
RECURSIVE FirstText(_)
FirstText(parts) ==
    IF parts = <<>> THEN <<>>
    ELSE IF Head(parts) # "" THEN << TextResponse(Head(parts)) >>
    ELSE FirstText(Tail(parts))

\* The responses the worker writes on RespChan after a successful send.
Replies(cands) ==
    IF Len(cands) = 0 \/ cands[1].isNil \/ Len(cands[1].Parts) = 0
    THEN << TextResponse("") >>
    ELSE FirstText(cands[1].Parts)

\* The restart taken two turns late.
NeedsRestartLate(h) == Len(h) > HistoryLimit + 2

\* The restart taken one turn early.
NeedsRestartAtLimit(h) == Len(h) >= HistoryLimit

\* len(history) > 20
NeedsRestart(h) == Len(h) > HistoryLimit

\* history[10:]
Suffix(h) == SubSeq(h, KeepFrom + 1, Len(h))

(* ------------------------------------------------------------------ *)
(* State                                                                *)
(* ------------------------------------------------------------------ *)

\* The goroutine that calls router(), and the goroutine router() starts.
MainTask == "main"
DispatcherTask == "dispatcher"

\* The Msg of a request: the handler refuses a request without msg.
MsgSet == { "hello" }

VARIABLES
    returned,     \* router() has returned (its deferred function has run)
    inputClosed,  \* main's deferred close(input) has run
    panicked,     \* a goroutine panicked: the process is gone
    stage,        \* per caller: where its request is
    meta,         \* per caller: the Metadata of its request
    msg,          \* per caller: the Msg of its request
    respChan,     \* per caller: the responses written on its RespChan
    trace,        \* per caller: what happened to its request (history variable)
    rpc,          \* dispatcher goroutine: "recv", "handoff" or "stopped"
    rcur,         \* the caller whose request the dispatcher is handing off
    chats,        \* the registry: key -> worker
    regUsers,     \* the goroutines that have read or written the registry
    nrecv,        \* requests received by the dispatcher so far
    nchats,       \* sessions created so far
    wpc,          \* per worker: "recv", "send", "hung" or "exited"
    wcur,         \* per worker: the caller whose request it is processing
    chat,         \* per worker: its chat session
    inbox,        \* per worker: callers whose request a sender holds on its inbox
    closed,       \* per worker: its inbox is closed
    wkey,         \* per worker: the key it was created for
    lastTaken     \* per worker: the receive number of the last request it took

vars == << returned, inputClosed, panicked, stage, meta, msg, respChan, trace, rpc,
           rcur, chats, regUsers, nrecv, nchats, wpc, wcur, chat, inbox, closed, wkey,
           lastTaken >>

Workers == 1 .. Len(wpc)

NoTrace ==
    [ord |-> 0, worker |-> 0, outcome |-> "", resp |-> <<>>, sends |-> 0,
     parts |-> <<>>, before |-> NilChat, used |-> NilChat, left |-> NilChat]

Init ==
    /\ returned = FALSE
    /\ inputClosed = FALSE
    /\ panicked = FALSE
    /\ stage = [c \in Callers |-> "idle"]
    /\ meta = [c \in Callers |-> EmptyMap]
    /\ msg = [c \in Callers |-> ""]
    /\ respChan = [c \in Callers |-> <<>>]
    /\ trace = [c \in Callers |-> NoTrace]
    /\ rpc = "recv"
    /\ rcur = NoCaller
    /\ chats = [k \in {} |-> 0]
    /\ regUsers = {}
    /\ nrecv = 0
    /\ nchats = 0
    /\ wpc = <<>>
    /\ wcur = <<>>
    /\ chat = <<>>
    /\ inbox = <<>>
    /\ closed = <<>>
    /\ wkey = <<>>
    /\ lastTaken = <<>>

(* ------------------------------------------------------------------ *)
(* main(): the HTTP handlers and the process lifecycle                  *)
(* ------------------------------------------------------------------ *)

\* Callers blocked in "input <- request{...}".
InputSenders == {c \in Callers : stage[c] = "input"}

\* router() returns: its deferred function closes the inbox of every registered chat.
RouterReturn ==
    /\ ~returned
    /\ returned' = TRUE
    /\ closed' = [w \in Workers |->
                    IF \E k \in DOMAIN chats : chats[k] = w THEN TRUE ELSE closed[w]]
    /\ regUsers' = regUsers \cup {MainTask}
    /\ UNCHANGED << inputClosed, panicked, stage, meta, msg, respChan, trace,
                    rpc, rcur, chats, nrecv, nchats, wpc, wcur, chat, inbox, wkey,
                    lastTaken >>

\* A handler builds a request and blocks sending it on input.
Submit(c, md, maxMsgs) ==
    /\ returned /\ ~inputClosed /\ ~panicked
    /\ stage[c] = "idle"
    /\ nrecv + Cardinality(InputSenders) < maxMsgs
    /\ stage' = [stage EXCEPT ![c] = "input"]
    /\ meta' = [meta EXCEPT ![c] = md]
    /\ \E m \in MsgSet : msg' = [msg EXCEPT ![c] = m]
    /\ UNCHANGED << returned, inputClosed, panicked, respChan, trace, rpc, rcur,
                    chats, regUsers, nrecv, nchats, wpc, wcur, chat, inbox,
                    closed, wkey, lastTaken >>

\* resp := <-respChan, then the handler writes the HTTP response and returns.
Return(c) ==
    /\ ~panicked
    /\ stage[c] = "done"
    /\ respChan[c] # <<>>
    /\ stage' = [stage EXCEPT ![c] = "idle"]
    /\ meta' = [meta EXCEPT ![c] = EmptyMap]
    /\ msg' = [msg EXCEPT ![c] = ""]
    /\ respChan' = [respChan EXCEPT ![c] = <<>>]
    /\ trace' = [trace EXCEPT ![c] = NoTrace]
    /\ UNCHANGED << returned, inputClosed, panicked, rpc, rcur, chats, regUsers,
                    nrecv, nchats, wpc, wcur, chat, inbox, closed, wkey, lastTaken >>

\* main returns: defer close(input). A handler still blocked in its send panics.
CloseInput ==
    /\ returned /\ ~inputClosed /\ ~panicked
    /\ inputClosed' = TRUE
    /\ panicked' = (InputSenders # {})
    /\ UNCHANGED << returned, stage, meta, msg, respChan, trace, rpc, rcur,
                    chats, regUsers, nrecv, nchats, wpc, wcur, chat, inbox,
                    closed, wkey, lastTaken >>

(* ------------------------------------------------------------------ *)
(* router(): the dispatcher goroutine                                   *)
(* ------------------------------------------------------------------ *)

\* "ch, ok := chats[name]": the dispatcher goroutine reads the registry, and writes
\* it when it registers a worker.
Lookup == regUsers' = regUsers \cup {DispatcherTask}

\* The dispatcher is at "for msg := range input" and c's send is the one it takes.
RouterTakes(c) ==
    /\ returned /\ ~panicked
    /\ rpc = "recv"
    /\ stage[c] = "input"
    /\ nrecv' = nrecv + 1

\* A dispatcher that hands off in a goroutine of its own and goes on at once.
ForwardPcAsync == "recv"

\* "ch <- msg" on the unbuffered inbox: the dispatcher blocks until the worker receives.
ForwardPc == "handoff"

\* msg.RespChan <- response{Err: e}; continue
RouterReplies(c, e, outcome) ==
    /\ respChan' = [respChan EXCEPT ![c] = Append(@, ErrResponse(e))]
    /\ stage' = [stage EXCEPT ![c] = "done"]
    /\ trace' = [trace EXCEPT ![c].outcome = outcome, ![c].ord = nrecv + 1]
    /\ UNCHANGED << rpc, rcur, inbox >>

\* ch <- msg: the request is held on the inbox of worker w.
Forward(c, w, inb) ==
    /\ inbox' = [inb EXCEPT ![w] = @ \cup {c}]
    /\ rpc' = ForwardPc
    /\ rcur' = c
    /\ stage' = [stage EXCEPT ![c] = "router"]
    /\ trace' = [trace EXCEPT ![c].ord = nrecv + 1, ![c].worker = w]
    /\ UNCHANGED respChan

\* The error reply without the "continue": the request falls through to the lookup
\* of the key "", and a worker is created and registered for it.
RouterNoKeyFallsThrough(c) ==
    LET w == Len(wpc) + 1
    IN  /\ RouterTakes(c)
        /\ KeyOf(meta[c]) = ""
        /\ "" \notin DOMAIN chats
        /\ Lookup
        /\ respChan' = [respChan EXCEPT ![c] = Append(@, ErrResponse(ErrNoKey))]
        /\ stage' = [stage EXCEPT ![c] = "done"]
        /\ trace' = [trace EXCEPT ![c].outcome = "nokey", ![c].ord = nrecv + 1]
        /\ nchats' = nchats + 1
        /\ wpc' = Append(wpc, "recv")
        /\ wcur' = Append(wcur, NoCaller)
        /\ chat' = Append(chat, [id |-> nchats + 1, history |-> <<>>])
        /\ closed' = Append(closed, FALSE)
        /\ wkey' = Append(wkey, "")
        /\ lastTaken' = Append(lastTaken, 0)
        /\ chats' = [k \in DOMAIN chats \cup {""} |-> IF k = "" THEN w ELSE chats[k]]
        /\ inbox' = Append(inbox, {})
        /\ UNCHANGED << returned, inputClosed, panicked, meta, msg, rpc, rcur >>

\* name == "": the error reply, and on to the next request.
RouterNoKey(c) ==
    /\ RouterTakes(c)
    /\ KeyOf(meta[c]) = ""
    /\ RouterReplies(c, ErrNoKey, "nokey")
    /\ UNCHANGED << returned, inputClosed, panicked, meta, msg, chats, regUsers,
                    nchats, wpc, wcur, chat, closed, wkey, lastTaken >>

\* chats[name] is there: forward to it.
RouterHit(c) ==
    /\ RouterTakes(c)
    /\ KeyOf(meta[c]) # ""
    /\ KeyOf(meta[c]) \in DOMAIN chats
    /\ Lookup
    /\ Forward(c, chats[KeyOf(meta[c])], inbox)
    /\ UNCHANGED << returned, inputClosed, panicked, meta, msg, chats, nchats,
                    wpc, wcur, chat, closed, wkey, lastTaken >>

\* The new worker forwarded to without "chats[name] = ch".
RegisterNothing(reg, name, w) == reg

\* A registry rebuilt around the new entry: the entries of the other keys are lost.
RegisterOnly(reg, name, w) == [k \in {name} |-> w]

\* The registry after "chats[name] = ch".
Register(reg, name, w) == [k \in DOMAIN reg \cup {name} |-> IF k = name THEN w ELSE reg[k]]

\* chats[name] is missing and messenger() succeeds: register the new worker, forward.
RouterCreate(c) ==
    LET name == KeyOf(meta[c])
        w == Len(wpc) + 1
    IN  /\ RouterTakes(c)
        /\ name # ""
        /\ name \notin DOMAIN chats
        /\ Lookup
        /\ nchats' = nchats + 1
        /\ wpc' = Append(wpc, "recv")
        /\ wcur' = Append(wcur, NoCaller)
        /\ chat' = Append(chat, [id |-> nchats + 1, history |-> <<>>])
        /\ closed' = Append(closed, FALSE)
        /\ wkey' = Append(wkey, name)
        /\ lastTaken' = Append(lastTaken, 0)
        /\ chats' = Register(chats, name, w)
        /\ Forward(c, w, Append(inbox, {}))
        /\ UNCHANGED << returned, inputClosed, panicked, meta, msg >>

\* The entry written before the error is looked at: the key is registered with the
\* nil channel messenger() returned.
RouterCreateFailRegisters(c) ==
    /\ RouterTakes(c)
    /\ KeyOf(meta[c]) # ""
    /\ KeyOf(meta[c]) \notin DOMAIN chats
    /\ Lookup
    /\ RouterReplies(c, ErrCreate, "createfail")
    /\ chats' = Register(chats, KeyOf(meta[c]), 0)
    /\ UNCHANGED << returned, inputClosed, panicked, meta, msg, nchats, wpc,
                    wcur, chat, closed, wkey, lastTaken >>

\* chats[name] is missing and messenger() fails: the error reply, nothing registered.
RouterCreateFail(c) ==
    /\ RouterTakes(c)
    /\ KeyOf(meta[c]) # ""
    /\ KeyOf(meta[c]) \notin DOMAIN chats
    /\ Lookup
    /\ RouterReplies(c, ErrCreate, "createfail")
    /\ UNCHANGED << returned, inputClosed, panicked, meta, msg, chats, nchats,
                    wpc, wcur, chat, closed, wkey, lastTaken >>

\* input is closed: the range loop ends and the goroutine returns.
RouterStop ==
    /\ returned /\ ~panicked
    /\ rpc = "recv"
    /\ inputClosed
    /\ rpc' = "stopped"
    /\ UNCHANGED << returned, inputClosed, panicked, stage, meta, msg, respChan,
                    trace, rcur, chats, regUsers, nrecv, nchats, wpc, wcur, chat,
                    inbox, closed, wkey, lastTaken >>

(* ------------------------------------------------------------------ *)
(* messenger(): the worker goroutine of one chat                        *)
(* ------------------------------------------------------------------ *)

\* Turns recorded so far by the sessions of workers 1 .. w.
RECURSIVE TotalTurns(_)
TotalTurns(w) == IF w = 0 THEN 0 ELSE LastTurn(chat[w].history) + TotalTurns(w - 1)

\* One backend call at a time for the whole process: a worker receives only when no
\* other worker is in a send.
WorkerTakesSerial(w, c) ==
    /\ \A v \in Workers : wpc[v] \notin {"send", "hung"}
    /\ inbox' = [inbox EXCEPT ![w] = @ \ {c}]
    /\ rpc' = IF rpc = "handoff" /\ rcur = c THEN "recv" ELSE rpc
    /\ rcur' = IF rpc = "handoff" /\ rcur = c THEN NoCaller ELSE rcur
    /\ lastTaken' = [lastTaken EXCEPT ![w] = trace[c].ord]

\* The worker receives c's request from its inbox; the sender of that request,
\* blocked in "ch <- msg", goes on.
WorkerTakes(w, c) ==
    /\ inbox' = [inbox EXCEPT ![w] = @ \ {c}]
    /\ rpc' = IF rpc = "handoff" /\ rcur = c THEN "recv" ELSE rpc
    /\ rcur' = IF rpc = "handoff" /\ rcur = c THEN NoCaller ELSE rcur
    /\ lastTaken' = [lastTaken EXCEPT ![w] = trace[c].ord]

\* The inbox is closed: the range loop ends and the goroutine returns.
WorkerExit(w) ==
    /\ wpc' = [wpc EXCEPT ![w] = "exited"]
    /\ UNCHANGED << panicked, stage, respChan, trace, rpc, rcur, nchats, wcur,
                    chat, inbox, lastTaken >>

\* chat is nil: chat.History(true) dereferences it and the process panics.
NilPanic(w, c) ==
    /\ panicked' = TRUE
    /\ wcur' = [wcur EXCEPT ![w] = c]
    /\ stage' = [stage EXCEPT ![c] = "worker"]
    /\ UNCHANGED << respChan, trace, nchats, wpc, chat >>

\* The send started in a goroutine of its own: the worker goes back to its inbox
\* while the send runs.
CallSendAsync(w, c, s) ==
    /\ chat' = [chat EXCEPT ![w] = s]
    /\ nchats' = IF s.id = chat[w].id THEN nchats ELSE nchats + 1
    /\ wpc' = wpc
    /\ wcur' = [wcur EXCEPT ![w] = c]
    /\ stage' = [stage EXCEPT ![c] = "worker"]
    /\ \E order \in Orders(DOMAIN meta[c]) :
          trace' = [trace EXCEPT ![c].before = chat[w], ![c].used = s,
                                 ![c].sends = @ + 1,
                                 ![c].parts = Parts(meta[c], msg[c], order)]
    /\ UNCHANGED << panicked, respChan >>

\* chat.SendMessage(ctx, parts...) is called for c's request on session s, which is
\* the session the worker holds from now on.
CallSend(w, c, s) ==
    /\ chat' = [chat EXCEPT ![w] = s]
    /\ nchats' = IF s.id = chat[w].id THEN nchats ELSE nchats + 1
    /\ wpc' = [wpc EXCEPT ![w] = "send"]
    /\ wcur' = [wcur EXCEPT ![w] = c]
    /\ stage' = [stage EXCEPT ![c] = "worker"]
    /\ \E order \in Orders(DOMAIN meta[c]) :
          trace' = [trace EXCEPT ![c].before = chat[w], ![c].used = s,
                                 ![c].sends = @ + 1,
                                 ![c].parts = Parts(meta[c], msg[c], order)]
    /\ UNCHANGED << panicked, respChan >>

\* What "chat, err = client.Chats.Create(...)" leaves in chat when Create fails.
FailedCreate(old) == NilChat

\* Chats.Create fails: msg.RespChan <- response{Err: err}; continue
RestartFails(w, c) ==
    /\ chat' = [chat EXCEPT ![w] = FailedCreate(chat[w])]
    /\ respChan' = [respChan EXCEPT ![c] = Append(@, ErrResponse(ErrCreate))]
    /\ stage' = [stage EXCEPT ![c] = "done"]
    /\ trace' = [trace EXCEPT ![c].outcome = "restartfail", ![c].before = chat[w],
                               ![c].left = FailedCreate(chat[w])]
    /\ UNCHANGED << panicked, nchats, wpc, wcur >>

\* One turn of "for msg := range input" up to the call of SendMessage: receive, look
\* at the history, restart the chat when it is long (createOk: Chats.Create succeeds).
WorkerReceive(w, createOk) ==
    /\ w \in Workers
    /\ ~panicked
    /\ wpc[w] = "recv"
    /\ IF closed[w]
       THEN WorkerExit(w)
       ELSE \E c \in inbox[w] :
              /\ WorkerTakes(w, c)
              /\ IF chat[w] = NilChat
                 THEN NilPanic(w, c)
                 ELSE IF ~NeedsRestart(chat[w].history)
                 THEN CallSend(w, c, chat[w])
                 ELSE IF createOk
                 THEN CallSend(w, c, [id |-> nchats + 1,
                                      history |-> Suffix(chat[w].history)])
                 ELSE RestartFails(w, c)
    /\ UNCHANGED << returned, inputClosed, meta, msg, chats, regUsers, nrecv,
                    closed, wkey >>

\* The iteration for the request of worker w is over: rs is written on RespChan.
Finish(w, outcome, cands, rs) ==
    LET c == wcur[w]
    IN  /\ wpc' = [wpc EXCEPT ![w] = "recv"]
        /\ wcur' = [wcur EXCEPT ![w] = NoCaller]
        /\ respChan' = [respChan EXCEPT ![c] = @ \o rs]
        /\ stage' = [stage EXCEPT ![c] = "done"]
        /\ trace' = [trace EXCEPT ![c].outcome = outcome, ![c].resp = cands,
                                   ![c].parts = <<>>, ![c].left = chat'[w]]

\* SendMessage returns an error: the error reply.
SendFail(w) ==
    /\ w \in Workers
    /\ ~panicked
    /\ wpc[w] = "send"
    /\ chat' = chat
    /\ Finish(w, "sendfail", <<>>, << ErrResponse(ErrSend) >>)
    /\ UNCHANGED << returned, inputClosed, panicked, meta, msg, rpc, rcur, chats,
                    regUsers, nrecv, nchats, inbox, closed, wkey, lastTaken >>

\* SendMessage returns a response, the session having recorded k turns.
SendOk(w, cands, k, maxTurns) ==
    /\ w \in Workers
    /\ ~panicked
    /\ wpc[w] = "send"
    /\ TotalTurns(Len(wpc)) + k <= maxTurns
    /\ chat' = [chat EXCEPT ![w].history = @ \o Recorded(@, k)]
    /\ Finish(w, "ok", cands, Replies(cands))
    /\ UNCHANGED << returned, inputClosed, panicked, meta, msg, rpc, rcur, chats,
                    regUsers, nrecv, nchats, inbox, closed, wkey, lastTaken >>

\* SendMessage does not return (ctx is context.Background(): no deadline).
SendHang(w) ==
    /\ w \in Workers
    /\ ~panicked
    /\ wpc[w] = "send"
    /\ wpc' = [wpc EXCEPT ![w] = "hung"]
    /\ UNCHANGED << returned, inputClosed, panicked, stage, meta, msg, respChan,
                    trace, rpc, rcur, chats, regUsers, nrecv, nchats, wcur, chat,
                    inbox, closed, wkey, lastTaken >>

(* ------------------------------------------------------------------ *)
(* The system                                                           *)
(* ------------------------------------------------------------------ *)

Step(callers, mds, maxMsgs, maxTurns) ==
    \/ RouterReturn
    \/ CloseInput
    \/ RouterStop
    \/ \E c \in callers :
          \/ \E md \in mds : Submit(c, md, maxMsgs)
          \/ Return(c)
          \/ RouterNoKey(c)
          \/ RouterHit(c)
          \/ RouterCreate(c)
          \/ RouterCreateFail(c)
    \/ \E w \in 1 .. maxMsgs :
          \/ \E createOk \in BOOLEAN : WorkerReceive(w, createOk)
          \/ SendFail(w)
          \/ SendHang(w)
          \/ \E cands \in ResponseSet, k \in AppendCounts : SendOk(w, cands, k, maxTurns)

Next == Step(Callers, MetadataSet, MaxMsgs, MaxTurns)

Spec == Init /\ [][Next]_vars

\* The same system with one handler and long conversations.
LongCallers == {1}

LongMetadataSet ==
    { EmptyMap, [channel |-> "general"], [channel |-> "general", snr |-> "7.5"] }

LongNext == Step(LongCallers, LongMetadataSet, LongMsgs, LongTurns)

LongSpec == Init /\ [][LongNext]_vars

\* The same system with two handlers and long conversations, every backend call
\* returning: no send hangs, and a send that succeeds records the two turns of the
\* exchange and answers with text.
PairMetadataSet == { EmptyMap, [channel |-> "general"] }

FullResponse == << Content(<< "", "yo", "hi" >>) >>

PairNext ==
    \/ RouterReturn
    \/ CloseInput
    \/ RouterStop
    \/ \E c \in Callers :
          \/ \E md \in PairMetadataSet : Submit(c, md, PairMsgs)
          \/ Return(c)
          \/ RouterNoKey(c)
          \/ RouterHit(c)
          \/ RouterCreate(c)
          \/ RouterCreateFail(c)
    \/ \E w \in 1 .. PairMsgs :
          \/ \E createOk \in BOOLEAN : WorkerReceive(w, createOk)
          \/ SendFail(w)
          \/ SendOk(w, FullResponse, 2, PairTurns)

PairSpec == Init /\ [][PairNext]_vars

(* ------------------------------------------------------------------ *)
(* Properties                                                           *)
(* ------------------------------------------------------------------ *)

\* C1: every request gets exactly one response on its reply channel, whatever the
\* outcome of its processing: never more than one is written, and once the
\* dispatcher or the worker is through with the request, one has been written.
ExactlyOneReply ==
    \A c \in Callers :
        /\ Len(respChan[c]) <= 1
        /\ stage[c] = "done" => Len(respChan[c]) = 1

\* C2: the requests of one key are sent to the backend, and replied to, in the order
\* in which the dispatcher received them: a request still held for a worker was
\* received after every request that worker has taken, and the request a worker
\* is sending (and will reply to) is the last one it took.
FifoPerKey ==
    \A w \in Workers :
        /\ \A c \in Callers :
              (stage[c] = "router" /\ trace[c].worker = w) => trace[c].ord > lastTaken[w]
        /\ \A c \in Callers :
              (stage[c] = "done" /\ trace[c].worker = w) => trace[c].ord <= lastTaken[w]
        /\ wcur[w] # NoCaller =>
              /\ trace[wcur[w]].ord = lastTaken[w]
              /\ trace[wcur[w]].worker = w

\* Two requests of one key were in flight together: the first is replied to, the
\* second, received later, is in the backend send.
FifoPerKeyWitness ==
    \E w \in Workers, c1, c2 \in Callers :
        /\ c1 # c2
        /\ wpc[w] = "send" /\ wcur[w] = c2
        /\ stage[c1] = "done" /\ trace[c1].worker = w /\ trace[c1].sends = 1
        /\ trace[c1].ord < trace[c2].ord
        /\ KeyOf(meta[c1]) = KeyOf(meta[c2])

\* C3: session affinity. The worker created for a key stays the registry entry of
\* that key (no entry is removed or replaced), every request is forwarded to the
\* worker of its own key, so never to the worker of another key, and no two
\* workers share a key or a backend session.
SessionAffinity ==
    /\ \A w \in Workers : wkey[w] \in DOMAIN chats /\ chats[wkey[w]] = w
    /\ \A k \in DOMAIN chats : chats[k] \in Workers /\ wkey[chats[k]] = k
    /\ \A c \in Callers :
          trace[c].worker # 0 =>
              /\ trace[c].worker \in Workers
              /\ wkey[trace[c].worker] = KeyOf(meta[c])
              /\ wcur[trace[c].worker] = c => trace[c].used = chat[trace[c].worker]
    /\ \A w1, w2 \in Workers :
          w1 # w2 => /\ wkey[w1] # wkey[w2]
                     /\ chat[w1] = NilChat \/ chat[w1].id # chat[w2].id

\* Two workers exist, and a request received after both were created is with the
\* first worker, on the session that already holds the turns of an earlier request.
SessionAffinityWitness ==
    /\ Len(wpc) = 2
    /\ \E c \in Callers :
          /\ trace[c].worker = 1 /\ trace[c].ord = 3
          /\ wpc[1] = "send" /\ wcur[1] = c
          /\ Len(chat[1].history) > 0

\* C4: isolation under backpressure. A worker stalled in a backend send that does
\* not return never blocks the dispatcher: the dispatcher is never held in the
\* hand-off of a further request to that worker, where it would receive no request
\* of any other key.
StalledWorkerNeverBlocksDispatcher ==
    \A w \in Workers :
        wpc[w] = "hung" => ~(rpc = "handoff" /\ rcur \in inbox[w])

\* A response without text: no candidate, a first candidate without content or
\* without parts, or parts whose texts are all empty.
NoText(cands) ==
    \/ Len(cands) = 0
    \/ cands[1].isNil
    \/ \A i \in 1 .. Len(cands[1].Parts) : cands[1].Parts[i] = ""

\* C5: when the send succeeds with a response without text, the worker delivers the
\* reply with the empty text and no error.
EmptyResponseGivesEmptyReply ==
    \A c \in Callers :
        (stage[c] = "done" /\ trace[c].outcome = "ok" /\ NoText(trace[c].resp))
            => respChan[c] = << TextResponse("") >>

\* C6: when the history is longer than the limit and the restart of the session
\* fails, the request gets the error as its reply, no send is made for it, and the
\* worker keeps the session and the history it had.
RestartFailureKeepsSession ==
    \A c \in Callers :
        (stage[c] = "done" /\ trace[c].outcome = "restartfail")
            => /\ respChan[c] = << ErrResponse(ErrCreate) >>
               /\ trace[c].sends = 0
               /\ trace[c].left = trace[c].before

\* C7: once the dispatcher has stopped, the inbox of every registered worker is
\* closed.
StoppedDispatcherClosedInboxes ==
    rpc = "stopped" => \A k \in DOMAIN chats : closed[chats[k]]

\* C8: compaction trigger. A request is sent on a new session seeded with exactly
\* the turns from index 10 onward, in their order, when the history the worker
\* found was longer than 20 turns, and on the session the worker had, unchanged,
\* when it was not; while the send runs, that session is the one the worker holds.
CompactionTrigger ==
    \A c \in Callers :
        trace[c].sends > 0 =>
            LET b == trace[c].before
                u == trace[c].used
            IN  /\ trace[c].sends = 1
                /\ IF Len(b.history) > 20
                   THEN /\ u.id > b.id
                        /\ Len(u.history) = Len(b.history) - 10
                        /\ \A i \in 1 .. Len(u.history) : u.history[i] = b.history[i + 10]
                   ELSE u = b
                /\ stage[c] = "worker" => chat[trace[c].worker] = u

\* A request found a history of exactly 21 turns and is being sent on a new session
\* that holds the last 11 of them.
CompactionTriggerWitness ==
    \E c \in Callers :
        /\ stage[c] = "worker" /\ trace[c].sends = 1
        /\ Len(trace[c].before.history) = 21
        /\ Len(trace[c].used.history) = 11
        /\ trace[c].used.history[1] = 11
        /\ wpc[trace[c].worker] = "send"

\* The key the routing rule gives: the field channel when it is present, not empty
\* and not "DM", otherwise the field node_id, and no key ("") when that is absent.
RuleKey(md) ==
    IF "channel" \in DOMAIN md /\ md["channel"] # "" /\ md["channel"] # "DM"
    THEN md["channel"]
    ELSE IF "node_id" \in DOMAIN md THEN md["node_id"] ELSE ""

\* C9: key derivation. Every request the dispatcher has received was rejected with
\* the routing error exactly when the rule gives no key, and otherwise went to the
\* worker created for the key the rule gives; the four examples come out as
\* general, abc, abc and rejected.
KeyDerivation ==
    /\ \A c \in Callers :
          trace[c].ord > 0 =>
              IF RuleKey(meta[c]) = ""
              THEN /\ trace[c].outcome = "nokey"
                   /\ respChan[c] = << ErrResponse(ErrNoKey) >>
                   /\ trace[c].worker = 0
              ELSE /\ trace[c].outcome # "nokey"
                   /\ trace[c].worker # 0 => wkey[trace[c].worker] = RuleKey(meta[c])
                   /\ trace[c].worker = 0 => trace[c].outcome = "createfail"
    /\ KeyOf([channel |-> "general"]) = "general"
    /\ KeyOf([channel |-> "DM", node_id |-> "abc"]) = "abc"
    /\ KeyOf([node_id |-> "abc"]) = "abc"
    /\ KeyOf(EmptyMap) = ""

\* A request with channel DM and node_id abc is with the worker of key abc, and a
\* request without metadata has been rejected.
KeyDerivationWitness ==
    \E c1, c2 \in Callers :
        /\ meta[c1] = [channel |-> "DM", node_id |-> "abc"]
        /\ trace[c1].worker # 0 /\ wkey[trace[c1].worker] = "abc"
        /\ stage[c2] = "done" /\ meta[c2] = EmptyMap /\ trace[c2].outcome = "nokey"

\* C10: the routing error has no side effects. The step in which the dispatcher
\* takes a request without key writes the error reply on its reply channel, leaves
\* the registry, the workers, their sessions and their inboxes as they were, and
\* leaves the dispatcher receiving.
RoutingErrorNoSideEffects ==
    [][\A c \in Callers :
          (stage[c] = "input" /\ stage'[c] # "input" /\ RuleKey(meta[c]) = "")
              => /\ respChan'[c] = << ErrResponse(ErrNoKey) >>
                 /\ stage'[c] = "done"
                 /\ chats' = chats
                 /\ wpc' = wpc /\ chat' = chat /\ nchats' = nchats
                 /\ inbox' = inbox
                 /\ rpc = "recv" /\ rpc' = "recv"]_vars

\* A request without key has been rejected while a worker is registered and the
\* dispatcher is receiving again.
RoutingErrorNoSideEffectsWitness ==
    \E c \in Callers :
        /\ stage[c] = "done" /\ trace[c].outcome = "nokey"
        /\ respChan[c] = << ErrResponse(ErrNoKey) >>
        /\ DOMAIN chats # {}
        /\ rpc = "recv"

\* C11: a failed creation registers nothing. The step in which the dispatcher takes
\* a request that has a key and ends it without a worker is a miss whose creation
\* failed: the creation error is the reply of the request, the registry has no
\* entry for the key before or after, no worker and no session is added, no inbox
\* receives the request, and the dispatcher is receiving again.
CreateFailureRegistersNothing ==
    [][\A c \in Callers :
          (stage[c] = "input" /\ stage'[c] = "done" /\ RuleKey(meta[c]) # "")
              => /\ respChan'[c] = << ErrResponse(ErrCreate) >>
                 /\ RuleKey(meta[c]) \notin DOMAIN chats
                 /\ chats' = chats
                 /\ wpc' = wpc /\ chat' = chat /\ nchats' = nchats
                 /\ inbox' = inbox
                 /\ trace'[c].worker = 0 /\ trace'[c].sends = 0
                 /\ rpc = "recv" /\ rpc' = "recv"]_vars

\* The creation failed for a request of key general while a worker of another key
\* is registered: the request has the error reply and general is not registered.
CreateFailureRegistersNothingWitness ==
    \E c \in Callers :
        /\ stage[c] = "done" /\ trace[c].outcome = "createfail"
        /\ respChan[c] = << ErrResponse(ErrCreate) >>
        /\ KeyOf(meta[c]) = "general"
        /\ DOMAIN chats = {"abc"}
        /\ Len(wpc) = 1

\* C12: no error crashes or retries. A request is sent to the backend at most once,
\* a failed send is reported as the one reply of its request, and after an error
\* the worker goes on with the next request: it holds a session to send it on, and
\* a request it has taken is in the backend send.
NoErrorCrashesOrRetries ==
    /\ \A c \in Callers :
          /\ trace[c].sends <= 1
          /\ (stage[c] = "done" /\ trace[c].outcome = "sendfail")
                => respChan[c] = << ErrResponse(ErrSend) >>
    /\ \A w \in Workers :
          /\ chat[w] # NilChat
          /\ wcur[w] # NoCaller => wpc[w] \in {"send", "hung"}

\* The requests a worker has received from its inbox and not yet replied to.
InFlight(w) == {c \in Callers : stage[c] = "worker" /\ trace[c].worker = w}

\* C13: one message in flight per worker. A worker holds at most one request
\* between the receipt from its inbox and the reply, it is the request the worker
\* is processing, and a worker back at its inbox holds none; so at most one send
\* is running for the requests of one key.
OneInFlightPerWorker ==
    /\ \A w \in Workers :
          /\ Cardinality(InFlight(w)) <= 1
          /\ InFlight(w) # {} => InFlight(w) = {wcur[w]}
          /\ wpc[w] \in {"send", "hung"} => InFlight(w) = {wcur[w]}
          /\ (wpc[w] = "recv" /\ ~panicked) => InFlight(w) = {}
    /\ \A c1, c2 \in Callers :
          (c1 # c2 /\ stage[c1] = "worker" /\ stage[c2] = "worker")
              => KeyOf(meta[c1]) # KeyOf(meta[c2])

\* A worker is in the send of one request while a second request of the same key
\* waits in the hand-off on its inbox.
OneInFlightPerWorkerWitness ==
    \E w \in Workers, c1, c2 \in Callers :
        /\ c1 # c2
        /\ wpc[w] = "send" /\ wcur[w] = c1 /\ stage[c1] = "worker"
        /\ stage[c2] = "router" /\ c2 \in inbox[w]
        /\ KeyOf(meta[c1]) = KeyOf(meta[c2])

\* C14: single-writer discipline. The registry is read and written by the dispatcher
\* goroutine and by no other goroutine, and every session is held by one worker,
\* the only goroutine that reads or replaces it.
SingleWriterDiscipline ==
    /\ regUsers \subseteq {DispatcherTask}
    /\ \A w1, w2 \in Workers :
          (w1 # w2 /\ chat[w1] # NilChat) => chat[w1].id # chat[w2].id

\* C15: different keys run concurrently. Whatever the other workers are doing, the
\* dispatcher at its receive can take a request that has a key, a worker at its
\* inbox with a request on it can receive it and start its send, and a worker in
\* its send can deliver its reply; so the sends of two keys overlap and either of
\* two running sends can be the first to reply.
DifferentKeysConcurrent ==
    /\ \A c \in Callers :
          (returned /\ ~panicked /\ rpc = "recv" /\ stage[c] = "input"
              /\ KeyOf(meta[c]) # "")
              => ENABLED (RouterHit(c) \/ RouterCreate(c))
    /\ \A w \in Workers :
          /\ (~panicked /\ wpc[w] = "recv" /\ ~closed[w] /\ inbox[w] # {})
                => ENABLED WorkerReceive(w, TRUE)
          /\ (~panicked /\ wpc[w] = "send") => ENABLED SendFail(w)

\* The workers of two keys are both in their backend send, for two requests that
\* are both without a reply.
DifferentKeysConcurrentWitness ==
    \E w1, w2 \in Workers :
        /\ w1 # w2 /\ wkey[w1] # wkey[w2]
        /\ wpc[w1] = "send" /\ wpc[w2] = "send"
        /\ wcur[w1] # wcur[w2]
        /\ respChan[wcur[w1]] = <<>> /\ respChan[wcur[w2]] = <<>>

\* C16: first non-empty text part. When the send succeeds and a part of the response
\* has text, the one reply of the request is the text of the first part that has
\* text, in the order of the parts, with no error.
FirstNonEmptyTextPart ==
    \A c \in Callers :
        (stage[c] = "done" /\ trace[c].outcome = "ok" /\ ~NoText(trace[c].resp))
            => LET parts == trace[c].resp[1].Parts
                   first == CHOOSE i \in 1 .. Len(parts) :
                               /\ parts[i] # ""
                               /\ \A j \in 1 .. i - 1 : parts[j] = ""
               IN  respChan[c] = << [Text |-> parts[first], Err |-> NoErr] >>

\* The response had the parts "", "yo", "hi" and the reply is "yo".
FirstNonEmptyTextPartWitness ==
    \E c \in Callers :
        /\ stage[c] = "done" /\ trace[c].outcome = "ok"
        /\ trace[c].resp = << Content(<< "", "yo", "hi" >>) >>
        /\ respChan[c] = << TextResponse("yo") >>

\* C17: outbound parts. A request with metadata is sent as two parts: first a text
\* made of one line "UPPERCASED_KEY: value" for every key of the metadata, the
\* lines in any order, last the body; a request without metadata is sent as one
\* part, the body. The body "hello" with the metadata snr 7.5 gives the parts
\* "SNR: 7.5\n" and "hello".
OutboundParts ==
    /\ \A c \in Callers :
          (stage[c] = "worker" /\ trace[c].sends = 1)
              => LET p == trace[c].parts
                     md == meta[c]
                     n == Cardinality(DOMAIN md)
                 IN  IF n = 0
                     THEN p = << [Text |-> << msg[c] >>] >>
                     ELSE /\ Len(p) = 2
                          /\ p[2] = [Text |-> << msg[c] >>]
                          /\ Len(p[1].Text) = 4 * n
                          /\ {SubSeq(p[1].Text, 4 * i - 3, 4 * i) : i \in 1 .. n}
                                = {<< ToUpper(k), ": ", md[k], "\n" >> : k \in DOMAIN md}
    /\ Parts([snr |-> "7.5"], "hello", << "snr" >>)
          = << [Text |-> << "SNR", ": ", "7.5", "\n" >>], [Text |-> << "hello" >>] >>
    /\ \A o \in Orders({}) : Parts(EmptyMap, "hello", o) = << [Text |-> << "hello" >>] >>

\* A request with the metadata channel general and snr 7.5 is in its send with two
\* parts, the line of snr before the line of channel, and the body last.
OutboundPartsWitness ==
    \E c \in Callers :
        /\ stage[c] = "worker" /\ trace[c].sends = 1
        /\ wpc[trace[c].worker] = "send"
        /\ meta[c] = [channel |-> "general", snr |-> "7.5"]
        /\ trace[c].parts =
              << [Text |-> << "SNR", ": ", "7.5", "\n", "CHANNEL", ": ", "general", "\n" >>],
                 [Text |-> << "hello" >>] >>

\* C18: bound on the history. With sends that record at most two turns (none when
\* they fail), the history of a session never holds more than 22 turns, and the
\* session a send is started on holds no more than 20.
HistoryBound ==
    /\ \A w \in Workers : Len(chat[w].history) <= 22
    /\ \A c \in Callers :
          trace[c].sends > 0 => Len(trace[c].used.history) <= 20

\* A session holds 22 turns: its last send was started on 20 turns and recorded two.
HistoryBoundWitness ==
    \E w \in Workers, c \in Callers :
        /\ Len(chat[w].history) = 22
        /\ stage[c] = "done" /\ trace[c].worker = w /\ trace[c].outcome = "ok"
        /\ Len(trace[c].used.history) = 20

\* C19: progress of the dispatcher. With backend calls that return and callers that
\* read their reply, a request waiting on input while the server runs is one the
\* dispatcher will come to receive, and a hand-off the dispatcher is blocked in is
\* to a worker that will receive: the process has not crashed under them, and the
\* worker is at its inbox or in a send that returns.
DispatcherProgress ==
    /\ \A c \in Callers : (stage[c] = "input" /\ ~inputClosed) => ~panicked
    /\ (rpc = "handoff" /\ ~inputClosed)
          => /\ ~panicked
             /\ wpc[trace[rcur].worker] \in {"recv", "send"}

\* C20: retry of the creation. A failed creation leaves the key without registry
\* entry; a request whose key has no entry takes the miss path, which fails again or
\* creates a worker with an empty history, registers it for the key and forwards
\* to it; a request whose key has an entry goes to that worker and no worker is
\* created; and no two workers have the same key.
CreationRetry ==
    [][/\ \A c \in Callers :
            (stage[c] = "input" /\ stage'[c] # "input" /\ RuleKey(meta[c]) # "")
                => LET name == RuleKey(meta[c])
                       new == Len(wpc) + 1
                   IN  IF name \in DOMAIN chats
                       THEN /\ chats' = chats /\ wpc' = wpc /\ chat' = chat
                            /\ trace'[c].worker = chats[name]
                       ELSE \/ /\ trace'[c].outcome = "createfail"
                               /\ name \notin DOMAIN chats'
                               /\ wpc' = wpc /\ chat' = chat
                            \/ /\ trace'[c].outcome = ""
                               /\ Len(wpc') = new
                               /\ chat'[new].history = <<>>
                               /\ name \in DOMAIN chats' /\ chats'[name] = new
                               /\ trace'[c].worker = new
       /\ \A w1, w2 \in 1 .. Len(wkey') : w1 # w2 => wkey'[w1] # wkey'[w2]]_vars

\* The creation failed for one request of key general, and a later request of the
\* same key is with a worker that was created for it, on an empty history.
CreationRetryWitness ==
    \E c1, c2 \in Callers :
        /\ stage[c1] = "done" /\ trace[c1].outcome = "createfail"
        /\ KeyOf(meta[c1]) = "general" /\ KeyOf(meta[c2]) = "general"
        /\ trace[c2].ord > trace[c1].ord
        /\ stage[c2] = "worker" /\ trace[c2].sends = 1
        /\ chats["general"] = trace[c2].worker
        /\ trace[c2].before.history = <<>>
        /\ Len(wpc) = 1

====
